---- MODULE Spec2Model ----
(***************************************************************************)
(* Model of the two layout components of rise-social:                      *)
(*   src/components/layout/Navbar.vue           (public navbar)            *)
(*   src/components/layout/DashboardNavbar.vue  (dashboard navbar)         *)
(* Strings are sequences of one-character strings, so that template        *)
(* literals, trim(), [0], toUpperCase() and startsWith() are computed the  *)
(* way the script computes them.                                           *)
(***************************************************************************)
EXTENDS Integers, Sequences, FiniteSets, TLC

\* ------------------------------------------------------------------ bounds
\* longest first/last name drawn for a session user
MaxNameLen == 2
\* longest text appended to a menu path to make a route path
MaxSuffix == 2
\* largest vertical scroll offset
MaxScrollY == 2
\* how many times the public navbar is mounted
MaxMounts == 2
\* how many times logout is triggered
MaxLogouts == 2

\* ----------------------------------------------------------------- strings
\* characters a name is drawn from: a lowercase letter, an uppercase letter
\* and white space
NameChars == {"a", "Z", " "}

StringsUpTo(n) == UNION {[1..k -> NameChars] : k \in 0..n}

\* String.prototype.toUpperCase on one character of the model's alphabet
UpperChar(c) == IF c = "a" THEN "A" ELSE c

\* String.prototype.toUpperCase
toUpperCase(s) == [i \in 1..Len(s) |-> UpperChar(s[i])]

IsWhiteSpace(c) == c = " "

RECURSIVE trimStart(_)
trimStart(s) ==
    IF s # <<>> /\ IsWhiteSpace(Head(s)) THEN trimStart(Tail(s)) ELSE s

RECURSIVE trimEnd(_)
trimEnd(s) ==
    IF s # <<>> /\ IsWhiteSpace(s[Len(s)])
    THEN trimEnd(SubSeq(s, 1, Len(s) - 1))
    ELSE s

\* String.prototype.trim
trim(s) == trimEnd(trimStart(s))

\* ------------------------------------------------- session (useAuth data)
\* A property of the session user is undefined (absent), null or a string.
Undefined == [kind |-> "undefined", str |-> <<>>]
Null == [kind |-> "null", str |-> <<>>]
StringValue(s) == [kind |-> "string", str |-> s]

FieldValues == {Undefined, Null} \cup {StringValue(s) : s \in StringsUpTo(MaxNameLen)}

\* session.value is null/undefined, or an object whose user is absent, or an
\* object with a user object
NoUser == [present |-> FALSE, firstName |-> Undefined, lastName |-> Undefined]
UserOf(f, l) == [present |-> TRUE, firstName |-> f, lastName |-> l]
NoSession == [present |-> FALSE, user |-> NoUser]
SessionOf(u) == [present |-> TRUE, user |-> u]

Users == {UserOf(f, l) : f \in FieldValues, l \in FieldValues}
Sessions == {NoSession, SessionOf(NoUser)} \cup {SessionOf(u) : u \in Users}

StatusValues == {"loading", "authenticated", "unauthenticated"}

\* What useAuth() hands the components: the status is "authenticated" only
\* while there is session data (the usage the project rules document reads
\* session.user under status === 'authenticated' without a guard).
AuthStates(S) ==
    {a \in [session : S, status : StatusValues] :
        a.status = "authenticated" => a.session.present}

\* ------------------------------------------------ template-literal helpers
\* `${x}`: the string conversion of a property value
ToText(v) ==
    CASE v.kind = "undefined" -> <<"u", "n", "d", "e", "f", "i", "n", "e", "d">>
      [] v.kind = "null" -> <<"n", "u", "l", "l">>
      [] OTHER -> v.str

\* x?.[0] || '' : the first character of a string, '' for undefined, null
\* and the empty string
FirstCharOrEmpty(v) ==
    IF v.kind = "string" /\ v.str # <<>> THEN <<v.str[1]>> ELSE <<>>

\* ---------------------------------------------- computed values of a navbar
\* session.value?.user || null
user(sess) == IF sess.present /\ sess.user.present THEN sess.user ELSE NoUser

\* mutant: anything but 'unauthenticated' counts as signed in
isAuthenticated_notUnauthenticated(st) == st # "unauthenticated"

\* status.value === 'authenticated'
isAuthenticated(st) == st = "authenticated"

\* mutant: the name is concatenated but not trimmed
Navbar_fullName_untrimmed(u) ==
    IF ~u.present THEN <<>>
    ELSE ToText(u.firstName) \o <<" ">> \o ToText(u.lastName)

Navbar_fullName(u) ==
    IF ~u.present THEN <<>>
    ELSE trim(ToText(u.firstName) \o <<" ">> \o ToText(u.lastName))

DashboardNavbar_fullName(u) ==
    IF ~u.present THEN <<"U", "s", "e", "r">>
    ELSE trim(ToText(u.firstName) \o <<" ">> \o ToText(u.lastName))

\* mutant: the initials are not upper-cased
Navbar_initials_asTyped(u) ==
    IF ~u.present THEN <<"U">>
    ELSE LET first == FirstCharOrEmpty(u.firstName)
             last == FirstCharOrEmpty(u.lastName)
             both == first \o last
         IN IF both # <<>> THEN both ELSE <<"U">>

Navbar_initials(u) ==
    IF ~u.present THEN <<"U">>
    ELSE LET first == FirstCharOrEmpty(u.firstName)
             last == FirstCharOrEmpty(u.lastName)
             both == toUpperCase(first \o last)
         IN IF both # <<>> THEN both ELSE <<"U">>

DashboardNavbar_initials(u) ==
    IF ~u.present THEN <<"U">>
    ELSE LET first == FirstCharOrEmpty(u.firstName)
             last == FirstCharOrEmpty(u.lastName)
             both == toUpperCase(first \o last)
         IN IF both # <<>> THEN both ELSE <<"U">>

\* v-if="isAuthenticated" ... v-else : which auth section the header shows
AuthSection(auth) == IF auth THEN "userMenu" ELSE "loginButton"

\* what the public navbar derives from the auth state
NavbarDisplay(sess, st) ==
    [isAuthenticated |-> isAuthenticated(st),
     authSection |-> AuthSection(isAuthenticated(st)),
     fullName |-> Navbar_fullName(user(sess)),
     initials |-> Navbar_initials(user(sess))]

\* what the dashboard navbar derives from the auth state
DashboardDisplay(sess) ==
    [fullName |-> DashboardNavbar_fullName(user(sess)),
     initials |-> DashboardNavbar_initials(user(sess))]

\* -------------------------------------------------------------- route paths
Path_root == <<"/">>
Path_courses == <<"/", "c", "o", "u", "r", "s", "e", "s">>
Path_opportunities ==
    <<"/", "o", "p", "p", "o", "r", "t", "u", "n", "i", "t", "i", "e", "s">>
Path_programs == <<"/", "p", "r", "o", "g", "r", "a", "m", "s">>
Path_aboutUs == <<"/", "a", "b", "o", "u", "t", "-", "u", "s">>
Path_contact == <<"/", "c", "o", "n", "t", "a", "c", "t">>
Path_dashboard == <<"/", "d", "a", "s", "h", "b", "o", "a", "r", "d">>
Path_dashboardCourse == Path_dashboard \o <<"/", "c", "o", "u", "r", "s", "e">>
Path_dashboardJobs == Path_dashboard \o <<"/", "j", "o", "b", "s">>
Path_dashboardPrograms == Path_dashboard \o Path_programs

\* the menu paths of the two navbars
MenuPaths ==
    {Path_root, Path_courses, Path_opportunities, Path_programs, Path_aboutUs,
     Path_contact, Path_dashboard, Path_dashboardCourse, Path_dashboardJobs,
     Path_dashboardPrograms}

\* characters appended to a menu path: a separator, a digit, letters
SuffixChars == {"/", "1", "s", "X"}

Suffixes(n) == UNION {[1..k -> SuffixChars] : k \in 0..n}

\* route.path values: a menu path followed by at most n further characters
RoutePaths(n) == {m \o s : m \in MenuPaths, s \in Suffixes(n)}

\* String.prototype.startsWith
startsWith(s, prefix) ==
    /\ Len(prefix) <= Len(s)
    /\ SubSeq(s, 1, Len(prefix)) = prefix

\* mutant: the home item matches by prefix like the other items
Navbar_navigationMenus_homeByPrefix(p) ==
    << [id |-> "home", path |-> Path_root, isActive |-> startsWith(p, Path_root)],
       [id |-> "courses", path |-> Path_courses,
        isActive |-> startsWith(p, Path_courses)],
       [id |-> "opportunities", path |-> Path_opportunities,
        isActive |-> startsWith(p, Path_opportunities)],
       [id |-> "programs", path |-> Path_programs,
        isActive |-> startsWith(p, Path_programs)],
       [id |-> "about-us", path |-> Path_aboutUs,
        isActive |-> startsWith(p, Path_aboutUs)],
       [id |-> "contact", path |-> Path_contact,
        isActive |-> startsWith(p, Path_contact)] >>

\* mutant: the courses item matches only at a "/" boundary
Navbar_navigationMenus_atBoundary(p) ==
    << [id |-> "home", path |-> Path_root, isActive |-> p = Path_root],
       [id |-> "courses", path |-> Path_courses,
        isActive |-> p = Path_courses \/ startsWith(p, Path_courses \o <<"/">>)],
       [id |-> "opportunities", path |-> Path_opportunities,
        isActive |-> startsWith(p, Path_opportunities)],
       [id |-> "programs", path |-> Path_programs,
        isActive |-> startsWith(p, Path_programs)],
       [id |-> "about-us", path |-> Path_aboutUs,
        isActive |-> startsWith(p, Path_aboutUs)],
       [id |-> "contact", path |-> Path_contact,
        isActive |-> startsWith(p, Path_contact)] >>

\* Navbar: navigationMenus, computed from route.path
Navbar_navigationMenus(p) ==
    << [id |-> "home", path |-> Path_root, isActive |-> p = Path_root],
       [id |-> "courses", path |-> Path_courses,
        isActive |-> startsWith(p, Path_courses)],
       [id |-> "opportunities", path |-> Path_opportunities,
        isActive |-> startsWith(p, Path_opportunities)],
       [id |-> "programs", path |-> Path_programs,
        isActive |-> startsWith(p, Path_programs)],
       [id |-> "about-us", path |-> Path_aboutUs,
        isActive |-> startsWith(p, Path_aboutUs)],
       [id |-> "contact", path |-> Path_contact,
        isActive |-> startsWith(p, Path_contact)] >>

\* mutant: the dashboard item matches by prefix like the other items
DashboardNavbar_dashboardNavigation_rootByPrefix(p) ==
    << [id |-> "dashboard", path |-> Path_dashboard,
        isActive |-> startsWith(p, Path_dashboard)],
       [id |-> "course", path |-> Path_dashboardCourse,
        isActive |-> startsWith(p, Path_dashboardCourse)],
       [id |-> "jobs", path |-> Path_dashboardJobs,
        isActive |-> startsWith(p, Path_dashboardJobs)],
       [id |-> "programs", path |-> Path_dashboardPrograms,
        isActive |-> startsWith(p, Path_dashboardPrograms)] >>

\* DashboardNavbar: dashboardNavigation, computed from route.path
DashboardNavbar_dashboardNavigation(p) ==
    << [id |-> "dashboard", path |-> Path_dashboard,
        isActive |-> p = Path_dashboard],
       [id |-> "course", path |-> Path_dashboardCourse,
        isActive |-> startsWith(p, Path_dashboardCourse)],
       [id |-> "jobs", path |-> Path_dashboardJobs,
        isActive |-> startsWith(p, Path_dashboardJobs)],
       [id |-> "programs", path |-> Path_dashboardPrograms,
        isActive |-> startsWith(p, Path_dashboardPrograms)] >>

\* ------------------------------------------------ handlers of the navbars
\* Navbar: the refs as script setup creates them
Navbar_setup == [mobileMenuOpen |-> FALSE, isScrolled |-> FALSE, showLoginDialog |-> FALSE]

\* DashboardNavbar: the refs as script setup creates them
DashboardNavbar_setup == [mobileMenuOpen |-> FALSE]

toggleMobileMenu(r) == [r EXCEPT !.mobileMenuOpen = ~r.mobileMenuOpen]

\* mutant: the dialog opens and the mobile menu stays as it is
openLoginDialog_keepsMenu(r) == [r EXCEPT !.showLoginDialog = TRUE]

openLoginDialog(r) == [r EXCEPT !.showLoginDialog = TRUE, !.mobileMenuOpen = FALSE]

\* @update:open="showLoginDialog = $event"
updateOpen(r, event) == [r EXCEPT !.showLoginDialog = event]

\* mutant: the shadow is set at the top of the page too
handleScroll_fromTop(r, y) == [r EXCEPT !.isScrolled = y >= 0]

handleScroll(r, y) == [r EXCEPT !.isScrolled = y > 0]

\* mutant: the watcher leaves the mobile menu as it is
Navbar_watchRoutePath_keepsMenu(r) == r

\* mutant: the watcher closes the login dialog too
Navbar_watchRoutePath_closesDialog(r) ==
    [r EXCEPT !.mobileMenuOpen = FALSE, !.showLoginDialog = FALSE]

\* Navbar: watch(() => route.path, ...)
Navbar_watchRoutePath(r) == [r EXCEPT !.mobileMenuOpen = FALSE]

\* DashboardNavbar: watch(() => route.path, ...)
DashboardNavbar_watchRoutePath(r) == [r EXCEPT !.mobileMenuOpen = FALSE]

\* mutant: the listener never closes the menu
Navbar_clickListener_inert(r, inHeader) == r

\* Navbar: the document click listener; inHeader is e.target.closest('header')
Navbar_clickListener(r, inHeader) ==
    IF ~inHeader THEN [r EXCEPT !.mobileMenuOpen = FALSE] ELSE r

\* mutant: an outside click opens the menu
DashboardNavbar_handleClickOutside_opens(r, inHeader) ==
    IF ~inHeader THEN [r EXCEPT !.mobileMenuOpen = TRUE] ELSE r

\* DashboardNavbar: handleClickOutside
DashboardNavbar_handleClickOutside(r, inHeader) ==
    IF ~inHeader THEN [r EXCEPT !.mobileMenuOpen = FALSE] ELSE r

\* DashboardNavbar: @click="mobileMenuOpen = false" of a mobile menu link
DashboardNavbar_mobileLinkClick(r) == [r EXCEPT !.mobileMenuOpen = FALSE]

\* ----------------------------------------------------------------- logout
\* One run of handleLogout works on a context: the refs of its component,
\* the promises of all signOut() calls so far, the promise of its own call,
\* where it stands, and the order of what it has done.
LogoutContext(r, s) ==
    [refs |-> r, signOuts |-> s, promise |-> 0, pc |-> "running", log |-> <<>>]

\* signOut(): the call is made and its promise is pending
Call_signOut(c) ==
    [c EXCEPT !.signOuts = Append(@, "pending"),
              !.promise = Len(c.signOuts) + 1,
              !.log = Append(@, "signOut")]

\* mobileMenuOpen.value = false
Assign_mobileMenuOpen(c) ==
    [c EXCEPT !.refs.mobileMenuOpen = FALSE, !.log = Append(@, "closeMenu")]

\* await navigateTo('/'): the navigation is initiated and awaited
Await_navigateTo(c) ==
    [c EXCEPT !.pc = "awaitNavigate", !.log = Append(@, "navigateTo")]

\* await signOut(): the call is made and its settlement awaited
Await_signOut(c) == [Call_signOut(c) EXCEPT !.pc = "awaitSignOut"]

\* mutant: the navigation is initiated before the menu is closed
Navbar_handleLogout_navigatesFirst(c) ==
    Assign_mobileMenuOpen(Await_navigateTo(Call_signOut(c)))

\* Navbar: handleLogout, up to its only await
Navbar_handleLogout(c) ==
    Await_navigateTo(Assign_mobileMenuOpen(Call_signOut(c)))

\* mutant: no second signOut() while one is pending
DashboardNavbar_handleLogout_guarded(c) ==
    IF \E i \in 1..Len(c.signOuts) : c.signOuts[i] = "pending"
    THEN [Assign_mobileMenuOpen(c) EXCEPT !.pc = "done"]
    ELSE Await_signOut(Assign_mobileMenuOpen(c))

\* DashboardNavbar: handleLogout, up to its first await
DashboardNavbar_handleLogout(c) ==
    Await_signOut(Assign_mobileMenuOpen(c))

\* mutant: the navigation follows however signOut() settled
DashboardNavbar_handleLogout_resume_anyOutcome(c, outcome) ==
    Await_navigateTo(c)

\* DashboardNavbar: handleLogout after await signOut() settled: navigateTo
\* if it resolved, the rejection thrown out of the handler if it did not
DashboardNavbar_handleLogout_resume(c, outcome) ==
    IF outcome = "resolved" THEN Await_navigateTo(c)
    ELSE [c EXCEPT !.pc = "failed"]

\* what is kept of a run of handleLogout
Run(component, c) ==
    [component |-> component, promise |-> c.promise, pc |-> c.pc, log |-> c.log]

\* The listeners registered on document and window, counted per component
\* and event.
NoListeners == [navClick |-> 0, navScroll |-> 0, dashClick |-> 0]

\* Navbar onMounted: an anonymous click listener and handleScroll
Navbar_onMounted(l) ==
    [l EXCEPT !.navClick = @ + 1, !.navScroll = @ + 1]

\* Navbar onUnmounted: removes handleScroll, and nothing else
Navbar_onUnmounted(l) == [l EXCEPT !.navScroll = @ - 1]

\* DashboardNavbar onMounted: handleClickOutside
DashboardNavbar_onMounted(l) == [l EXCEPT !.dashClick = @ + 1]

\* DashboardNavbar onUnmounted, registered from inside the mounted hook
\* (the hook runs with the instance current, so the registration takes)
DashboardNavbar_onUnmounted(l) == [l EXCEPT !.dashClick = @ - 1]

\* ------------------------------------------------------------------- state
VARIABLES
    session,      \* useAuth().data
    status,       \* useAuth().status
    navDisplay,   \* Navbar: isAuthenticated, fullName, initials, auth section
    dashDisplay,  \* DashboardNavbar: fullName, initials
    path,                \* useRoute().path
    navigationMenus,     \* Navbar: the navigation item list
    dashboardNavigation, \* DashboardNavbar: the navigation item list
    navMounted,          \* a Navbar instance is mounted
    navbar,              \* its refs: mobileMenuOpen, isScrolled, showLoginDialog
    dashMounted,         \* a DashboardNavbar instance is mounted
    dashboard,           \* its ref: mobileMenuOpen
    scrollY,             \* window.scrollY
    scrollPending,       \* the offset changed and its scroll event is due
    listeners,           \* listeners registered on document and window
    signOuts,            \* the promise of each signOut() call, in call order
    logouts,             \* the runs of handleLogout, in trigger order
    lastEvent,           \* history: the event handled last
    prevNavbar           \* history: the Navbar refs before that event

authVars == <<session, status, navDisplay, dashDisplay>>
routeVars == <<path, navigationMenus, dashboardNavigation>>
navVars == <<navMounted, navbar>>
dashVars == <<dashMounted, dashboard>>
scrollVars == <<scrollY, scrollPending>>
logoutVars == <<signOuts, logouts>>
history == <<lastEvent, prevNavbar>>
vars ==
    <<authVars, routeVars, navVars, dashVars, scrollVars, listeners, logoutVars,
      history>>

\* the computed values follow the auth state
Derived ==
    /\ navDisplay' = NavbarDisplay(session', status')
    /\ dashDisplay' = DashboardDisplay(session')

\* before the first session fetch answers
InitAuth ==
    /\ session = NoSession
    /\ status = "loading"
    /\ navDisplay = NavbarDisplay(session, status)
    /\ dashDisplay = DashboardDisplay(session)

\* the application starts on the home route
InitRoute ==
    /\ path = Path_root
    /\ navigationMenus = Navbar_navigationMenus(path)
    /\ dashboardNavigation = DashboardNavbar_dashboardNavigation(path)

\* both navbars set up and mounted at the top of the page
InitComponents ==
    /\ scrollY = 0
    /\ scrollPending = FALSE
    /\ navMounted = TRUE
    /\ navbar = handleScroll(Navbar_setup, scrollY)
    /\ dashMounted = TRUE
    /\ dashboard = DashboardNavbar_setup
    /\ listeners = DashboardNavbar_onMounted(Navbar_onMounted(NoListeners))
    /\ signOuts = <<>>
    /\ logouts = <<>>
    /\ lastEvent = "Navbar.mount"
    /\ prevNavbar = Navbar_setup

Handled(event) ==
    /\ lastEvent' = event
    /\ prevNavbar' = navbar

\* the item lists follow the route
DerivedRoute ==
    /\ navigationMenus' = Navbar_navigationMenus(path')
    /\ dashboardNavigation' = DashboardNavbar_dashboardNavigation(path')

otherThanAuth == <<routeVars, navVars, dashVars, scrollVars, listeners, logoutVars>>

\* the auth provider delivers session data (sign-in, or the first fetch)
SessionSet(S) ==
    \E a \in AuthStates(S) :
        /\ ~session.present
        /\ a.session.present
        /\ session' = a.session
        /\ status' = a.status
        /\ Derived
        /\ Handled("auth")
        /\ UNCHANGED otherThanAuth

\* the auth provider drops the session data (sign-out, expiry)
SessionDrop ==
    /\ session.present
    /\ \E a \in AuthStates({NoSession}) :
        /\ session' = a.session
        /\ status' = a.status
    /\ Derived
    /\ Handled("auth")
    /\ UNCHANGED otherThanAuth

\* the auth provider changes the status alone (loading while it refreshes)
StatusChange ==
    \E a \in AuthStates({session}) :
        /\ a.status # status
        /\ status' = a.status
        /\ UNCHANGED session
        /\ Derived
        /\ Handled("auth")
        /\ UNCHANGED otherThanAuth

\* The router moves to another path: the item lists are recomputed and the
\* route watcher of each mounted navbar runs.
Navigate(R) ==
    \E p \in R :
        /\ p # path
        /\ path' = p
        /\ DerivedRoute
        /\ navbar' = IF navMounted THEN Navbar_watchRoutePath(navbar) ELSE navbar
        /\ dashboard' =
              IF dashMounted THEN DashboardNavbar_watchRoutePath(dashboard)
              ELSE dashboard
        /\ Handled("route")
        /\ UNCHANGED <<logoutVars, authVars, navMounted, dashMounted, scrollVars, listeners>>

\* Navbar is set up and mounted: fresh refs, the two listeners, and the
\* initial handleScroll()
NavbarMount ==
    /\ ~navMounted
    /\ listeners.navClick < MaxMounts
    /\ navMounted' = TRUE
    /\ listeners' = Navbar_onMounted(listeners)
    /\ navbar' = handleScroll(Navbar_setup, scrollY)
    /\ Handled("Navbar.mount")
    /\ UNCHANGED <<logoutVars, authVars, routeVars, dashVars, scrollVars>>

\* Navbar is unmounted; its refs go with the instance
NavbarUnmount ==
    /\ navMounted
    /\ navMounted' = FALSE
    /\ listeners' = Navbar_onUnmounted(listeners)
    /\ navbar' = Navbar_setup
    /\ Handled("Navbar.unmount")
    /\ UNCHANGED <<logoutVars, authVars, routeVars, dashVars, scrollVars>>

DashboardMount ==
    /\ ~dashMounted
    /\ dashMounted' = TRUE
    /\ listeners' = DashboardNavbar_onMounted(listeners)
    /\ dashboard' = DashboardNavbar_setup
    /\ Handled("Dashboard.mount")
    /\ UNCHANGED <<logoutVars, authVars, routeVars, navVars, scrollVars>>

DashboardUnmount ==
    /\ dashMounted
    /\ dashMounted' = FALSE
    /\ listeners' = DashboardNavbar_onUnmounted(listeners)
    /\ dashboard' = DashboardNavbar_setup
    /\ Handled("Dashboard.unmount")
    /\ UNCHANGED <<logoutVars, authVars, routeVars, navVars, scrollVars>>

\* A click reaches document: the click listener of each mounted navbar
\* runs on the refs r and d (listeners left behind by unmounted instances
\* write refs nobody reads).
DocumentClick(r, d, inHeader) ==
    /\ navbar' = IF navMounted THEN Navbar_clickListener(r, inHeader) ELSE r
    /\ dashboard' =
          IF dashMounted THEN DashboardNavbar_handleClickOutside(d, inHeader)
          ELSE d

\* a click on the page, outside every header
ClickOutside ==
    /\ DocumentClick(navbar, dashboard, FALSE)
    /\ Handled("clickOutside")
    /\ UNCHANGED <<logoutVars, authVars, routeVars, navMounted, dashMounted, scrollVars, listeners>>

\* What a click inside a header can land on besides the menu button and
\* the login and logout buttons: the header itself, or a link of the
\* dashboard mobile menu while v-if="mobileMenuOpen" renders it.
HeaderTargets ==
    {"header"} \cup
        (IF dashMounted /\ dashboard.mobileMenuOpen THEN {"dashboardMobileLink"} ELSE {})

\* a click inside a header
ClickInside ==
    /\ navMounted \/ dashMounted
    /\ \E target \in HeaderTargets :
        DocumentClick(navbar,
                      IF target = "dashboardMobileLink"
                      THEN DashboardNavbar_mobileLinkClick(dashboard)
                      ELSE dashboard,
                      TRUE)
    /\ Handled("clickInside")
    /\ UNCHANGED <<logoutVars, authVars, routeVars, navMounted, dashMounted, scrollVars, listeners>>

\* a click on the mobile menu button of Navbar
ClickMenuButton ==
    /\ navMounted
    /\ DocumentClick(toggleMobileMenu(navbar), dashboard, TRUE)
    /\ Handled("toggleMobileMenu")
    /\ UNCHANGED <<logoutVars, authVars, routeVars, navMounted, dashMounted, scrollVars, listeners>>

\* a click on Login / Register, which Navbar shows while not authenticated
ClickLogin ==
    /\ navMounted
    /\ navDisplay.authSection = "loginButton"
    /\ DocumentClick(openLoginDialog(navbar), dashboard, TRUE)
    /\ Handled("openLoginDialog")
    /\ UNCHANGED <<logoutVars, authVars, routeVars, navMounted, dashMounted, scrollVars, listeners>>

\* LoginRegisterDialog emits update:open
DialogUpdateOpen ==
    /\ navMounted
    /\ \E event \in BOOLEAN :
        /\ event # navbar.showLoginDialog
        /\ navbar' = updateOpen(navbar, event)
    /\ Handled("updateOpen")
    /\ UNCHANGED <<logoutVars, authVars, routeVars, navMounted, dashVars, scrollVars, listeners>>

\* the page is scrolled to another offset; the scroll event follows
ScrollTo ==
    /\ \E y \in 0..MaxScrollY :
        /\ y # scrollY
        /\ scrollY' = y
    /\ scrollPending' = TRUE
    /\ Handled("scrollTo")
    /\ UNCHANGED <<logoutVars, authVars, routeVars, navVars, dashVars, listeners>>

\* the scroll event is dispatched on window: handleScroll runs if registered
ScrollEvent ==
    /\ scrollPending
    /\ scrollPending' = FALSE
    /\ navbar' = IF navMounted /\ listeners.navScroll > 0
                  THEN handleScroll(navbar, scrollY)
                  ELSE navbar
    /\ Handled("scroll")
    /\ UNCHANGED <<logoutVars, authVars, routeVars, navMounted, dashVars, scrollY, listeners>>

\* ------------------------------------------- specification: display state
Init == InitAuth /\ InitRoute /\ InitComponents

NextDisplay ==
    \/ SessionSet(Sessions)
    \/ SessionDrop
    \/ StatusChange

SpecDisplay == Init /\ [][NextDisplay]_vars

\* ----------------------------------------- specification: navigation items
NextItems == Navigate(RoutePaths(MaxSuffix))

SpecItems == Init /\ [][NextItems]_vars

\* ----------------------------------- specification: the navbars' UI state
\* one signed-in user stands for all of them
UiSessions == {SessionOf(UserOf(StringValue(<<"a">>), StringValue(<<"Z">>)))}

Next ==
    \/ SessionSet(UiSessions)
    \/ SessionDrop
    \/ StatusChange
    \/ Navigate(MenuPaths)
    \/ NavbarMount
    \/ NavbarUnmount
    \/ DashboardMount
    \/ DashboardUnmount
    \/ ClickOutside
    \/ ClickInside
    \/ ClickMenuButton
    \/ ClickLogin
    \/ DialogUpdateOpen
    \/ ScrollTo
    \/ ScrollEvent

Spec == Init /\ [][Next]_vars

\* ------------------------------------------------- specification: logout
\* A click on Logout in Navbar, which shows it while authenticated (in the
\* dropdown, rendered outside the header, or in the mobile menu inside it):
\* handleLogout runs up to its await, then the click reaches document.
NavbarLogout ==
    /\ navMounted
    /\ navDisplay.authSection = "userMenu"
    /\ Len(logouts) < MaxLogouts
    /\ LET c == Navbar_handleLogout(LogoutContext(navbar, signOuts))
       IN /\ signOuts' = c.signOuts
          /\ logouts' = Append(logouts, Run("Navbar", c))
          /\ \E inHeader \in BOOLEAN :
                DocumentClick(c.refs, dashboard, inHeader /\ navbar.mobileMenuOpen)
    /\ Handled("Navbar.handleLogout")
    /\ UNCHANGED <<authVars, routeVars, navMounted, dashMounted, scrollVars, listeners>>

\* A click on Logout in the dropdown of DashboardNavbar, rendered outside
\* the header: handleLogout runs up to its first await.
DashboardLogout ==
    /\ dashMounted
    /\ Len(logouts) < MaxLogouts
    /\ LET c == DashboardNavbar_handleLogout(LogoutContext(dashboard, signOuts))
       IN /\ signOuts' = c.signOuts
          /\ logouts' = Append(logouts, Run("DashboardNavbar", c))
          /\ DocumentClick(navbar, c.refs, FALSE)
    /\ Handled("DashboardNavbar.handleLogout")
    /\ UNCHANGED <<authVars, routeVars, navMounted, dashMounted, scrollVars, listeners>>

\* the auth provider settles a signOut() call, one way or the other
SignOutSettles ==
    /\ \E i \in 1..Len(signOuts), outcome \in {"resolved", "rejected"} :
        /\ signOuts[i] = "pending"
        /\ signOuts' = [signOuts EXCEPT ![i] = outcome]
    /\ Handled("signOutSettled")
    /\ UNCHANGED <<authVars, routeVars, navVars, dashVars, scrollVars, listeners, logouts>>

\* a run of DashboardNavbar's handleLogout continues after await signOut()
DashboardLogoutResumes ==
    /\ \E i \in 1..Len(logouts) :
        /\ logouts[i].pc = "awaitSignOut"
        /\ signOuts[logouts[i].promise] # "pending"
        /\ LET c == DashboardNavbar_handleLogout_resume(
                        [LogoutContext(dashboard, signOuts) EXCEPT
                            !.promise = logouts[i].promise,
                            !.pc = logouts[i].pc,
                            !.log = logouts[i].log],
                        signOuts[logouts[i].promise])
           IN logouts' = [logouts EXCEPT ![i] = Run("DashboardNavbar", c)]
    /\ Handled("DashboardNavbar.handleLogout.resumed")
    /\ UNCHANGED <<authVars, routeVars, navVars, dashVars, scrollVars, listeners, signOuts>>

\* a navigation to "/" that handleLogout awaits completes; the route
\* watchers run if the path changed
LogoutNavigation ==
    /\ \E i \in 1..Len(logouts) :
        /\ logouts[i].pc = "awaitNavigate"
        /\ logouts' = [logouts EXCEPT ![i].pc = "done"]
    /\ path' = Path_root
    /\ DerivedRoute
    /\ navbar' = IF navMounted /\ path # Path_root
                  THEN Navbar_watchRoutePath(navbar) ELSE navbar
    /\ dashboard' = IF dashMounted /\ path # Path_root
                     THEN DashboardNavbar_watchRoutePath(dashboard) ELSE dashboard
    /\ Handled("route")
    /\ UNCHANGED <<authVars, navMounted, dashMounted, scrollVars, listeners, signOuts>>

NextLogout ==
    \/ SessionSet(UiSessions)
    \/ SessionDrop
    \/ StatusChange
    \/ Navigate({Path_root, Path_dashboard})
    \/ ClickMenuButton
    \/ NavbarLogout
    \/ DashboardLogout
    \/ SignOutSettles
    \/ DashboardLogoutResumes
    \/ LogoutNavigation

\* The event loop runs a continuation whose promise has settled; nothing
\* makes the auth provider settle a signOut() call.
SpecLogout ==
    /\ Init
    /\ [][NextLogout]_vars
    /\ WF_vars(DashboardLogoutResumes)

\* ------------------------------------------------- claims: display state
TheUser == user(session)

ConcatenatedName(u) == trim(ToText(u.firstName) \o <<" ">> \o ToText(u.lastName))

HasText(v) == v.kind = "string" /\ v.str # <<>>

\* the upper-cased first letter of a name, nothing for a name that is
\* absent, null or empty
Letter(v) == IF HasText(v) THEN <<UpperChar(v.str[1])>> ELSE <<>>

\* C1 as stated: with no user fullName is the empty string in both navbars,
\* otherwise it is the trimmed "firstName lastName".
C1_FullNameEmptyInBoth ==
    /\ ~TheUser.present =>
          navDisplay.fullName = <<>> /\ dashDisplay.fullName = <<>>
    /\ TheUser.present =>
          /\ navDisplay.fullName = ConcatenatedName(TheUser)
          /\ dashDisplay.fullName = ConcatenatedName(TheUser)

\* C1 amended: with no user fullName is the empty string in Navbar and
\* "User" in DashboardNavbar; otherwise, in both, it is the trimmed
\* concatenation of firstName, a space and lastName as the template literal
\* writes them.
C1_FullName ==
    /\ ~TheUser.present =>
          /\ navDisplay.fullName = <<>>
          /\ dashDisplay.fullName = <<"U", "s", "e", "r">>
    /\ TheUser.present =>
          /\ navDisplay.fullName = ConcatenatedName(TheUser)
          /\ dashDisplay.fullName = ConcatenatedName(TheUser)

\* C1 witness: a signed-in user whose names carry outer white space, which
\* both navbars show trimmed
C1_Witness ==
    /\ TheUser.present
    /\ TheUser.firstName = StringValue(<<" ", "a">>)
    /\ TheUser.lastName = StringValue(<<"Z", " ">>)
    /\ navDisplay.fullName = <<"a", " ", "Z">>
    /\ dashDisplay.fullName = <<"a", " ", "Z">>

LastNameUnset(u) == u.lastName \in {Undefined, Null, StringValue(<<>>)}

\* C2 as stated: for a user with a first name and no last name (absent,
\* null or empty), initials is the upper-cased first letter of the first
\* name alone and fullName is the trimmed first name, in both navbars.
C2_FirstNameOnly ==
    (TheUser.present /\ HasText(TheUser.firstName) /\ LastNameUnset(TheUser)) =>
        /\ navDisplay.initials = Letter(TheUser.firstName)
        /\ dashDisplay.initials = Letter(TheUser.firstName)
        /\ navDisplay.fullName = trim(TheUser.firstName.str)
        /\ dashDisplay.fullName = trim(TheUser.firstName.str)

\* C3: initials is the upper-cased first letter of firstName followed by
\* that of lastName, "U" with no user or with both names absent or empty,
\* and never the empty string, in both navbars.
C3_Initials ==
    LET expected ==
            IF ~TheUser.present
                  \/ (~HasText(TheUser.firstName) /\ ~HasText(TheUser.lastName))
            THEN <<"U">>
            ELSE Letter(TheUser.firstName) \o Letter(TheUser.lastName)
    IN /\ navDisplay.initials = expected
       /\ dashDisplay.initials = expected
       /\ navDisplay.initials # <<>>
       /\ dashDisplay.initials # <<>>

\* C3 witness: a user with a lowercase first name and a last name
C3_Witness ==
    /\ TheUser.present
    /\ TheUser.firstName = StringValue(<<"a", "a">>)
    /\ TheUser.lastName = StringValue(<<"Z">>)
    /\ navDisplay.initials = <<"A", "Z">>
    /\ dashDisplay.initials = <<"A", "Z">>

ActiveIds(menus) == {menus[i].id : i \in {j \in 1..Len(menus) : menus[j].isActive}}

\* p lies under menu path m: m, a "/" and possibly more
NestedUnder(p, m) ==
    /\ Len(p) > Len(m)
    /\ SubSeq(p, 1, Len(m) + 1) = m \o <<"/">>

\* C5: in Navbar, on "/" home is the only active item, and on a path
\* nested under a non-home menu path that menu's item is the only active
\* one.
C5_ActiveItem ==
    /\ path = Path_root => ActiveIds(navigationMenus) = {"home"}
    /\ \A i \in 2..Len(navigationMenus) :
          NestedUnder(path, navigationMenus[i].path) =>
              ActiveIds(navigationMenus) = {navigationMenus[i].id}

\* C5 witness: the route is /courses/1 and only the courses item is active
C5_Witness ==
    /\ path = Path_courses \o <<"/", "1">>
    /\ ActiveIds(navigationMenus) = {"courses"}

\* -------------------------------------------------- claims: UI state
\* C6: in both navbars, after the route changes the mobile menu is closed,
\* whatever came before.
C6_RouteChangeClosesMenu ==
    lastEvent = "route" =>
        /\ navMounted => ~navbar.mobileMenuOpen
        /\ dashMounted => ~dashboard.mobileMenuOpen

\* C6 witness: the route changed while the Navbar mobile menu was open
C6_Witness ==
    /\ lastEvent = "route"
    /\ navMounted
    /\ prevNavbar.mobileMenuOpen
    /\ ~navbar.mobileMenuOpen

\* C7: while a navbar is mounted, a click outside the header leaves
\* mobileMenuOpen false, and for a click inside the header the click
\* listener changes nothing: the menu stays as it was, and a click on the
\* menu button leaves it toggled.
C7_ClickOutsideCloses ==
    /\ lastEvent = "clickOutside" =>
          /\ navMounted => ~navbar.mobileMenuOpen
          /\ dashMounted => ~dashboard.mobileMenuOpen
    /\ (lastEvent = "clickInside" /\ navMounted) =>
          navbar.mobileMenuOpen = prevNavbar.mobileMenuOpen
    /\ lastEvent = "toggleMobileMenu" =>
          navbar.mobileMenuOpen = ~prevNavbar.mobileMenuOpen

\* C7 witness: a click outside the header closed the open Navbar menu
C7_Witness ==
    /\ lastEvent = "clickOutside"
    /\ navMounted
    /\ prevNavbar.mobileMenuOpen
    /\ ~navbar.mobileMenuOpen

\* C8: in Navbar, after mount and after every scroll event while mounted,
\* isScrolled equals (scrollY > 0).
C8_IsScrolled ==
    (navMounted /\ lastEvent \in {"Navbar.mount", "scroll"}) =>
        navbar.isScrolled = (scrollY > 0)

\* C8 witness: a scroll event back at offset 0 cleared the flag that an
\* earlier one had set
C8_Witness ==
    /\ lastEvent = "scroll"
    /\ navMounted
    /\ prevNavbar.isScrolled
    /\ ~navbar.isScrolled
    /\ scrollY = 0

\* C9 as stated: an unmounted navbar has none of its listeners (window
\* scroll, document click) still registered.
C9_ListenersRemoved ==
    /\ ~navMounted => listeners.navClick = 0 /\ listeners.navScroll = 0
    /\ ~dashMounted => listeners.dashClick = 0

\* C10 as stated: in Navbar, after a route change showLoginDialog is false
\* just as mobileMenuOpen is.
C10_RouteChangeResetsFlags ==
    (lastEvent = "route" /\ navMounted) =>
        /\ ~navbar.mobileMenuOpen
        /\ ~navbar.showLoginDialog

\* C10 amended: in Navbar, a route change resets mobileMenuOpen only;
\* showLoginDialog and isScrolled keep the values they had before it.
C10_RouteChangeResetsMenuOnly ==
    (lastEvent = "route" /\ navMounted) =>
        /\ ~navbar.mobileMenuOpen
        /\ navbar.showLoginDialog = prevNavbar.showLoginDialog
        /\ navbar.isScrolled = prevNavbar.isScrolled

\* C10 witness: the route changed with the login dialog and the mobile
\* menu both open, and the dialog is still open
C10_Witness ==
    /\ lastEvent = "route"
    /\ navMounted
    /\ prevNavbar.mobileMenuOpen
    /\ prevNavbar.showLoginDialog
    /\ navbar.showLoginDialog

\* C11: in Navbar, openLoginDialog leaves showLoginDialog true and
\* mobileMenuOpen false, and isScrolled as it was.
C11_OpenLoginDialog ==
    lastEvent = "openLoginDialog" =>
        /\ navbar.showLoginDialog
        /\ ~navbar.mobileMenuOpen
        /\ navbar.isScrolled = prevNavbar.isScrolled

\* C11 witness: the dialog was opened from the open mobile menu of a
\* scrolled page
C11_Witness ==
    /\ lastEvent = "openLoginDialog"
    /\ prevNavbar.mobileMenuOpen
    /\ ~prevNavbar.showLoginDialog
    /\ prevNavbar.isScrolled
    /\ navbar.showLoginDialog
    /\ ~navbar.mobileMenuOpen

\* the path begins with the text of m, whatever follows
HasTextualPrefix(p, m) ==
    /\ Len(p) >= Len(m)
    /\ \A i \in 1..Len(m) : p[i] = m[i]

\* C15: every non-root item is active exactly when the path begins with
\* the text of its menu path, with no "/" boundary required; the root
\* items (home, dashboard) are active exactly on equality.
C15_PlainPrefixMatch ==
    /\ \A i \in 1..Len(navigationMenus) :
          navigationMenus[i].isActive =
              IF navigationMenus[i].id = "home"
              THEN path = navigationMenus[i].path
              ELSE HasTextualPrefix(path, navigationMenus[i].path)
    /\ \A i \in 1..Len(dashboardNavigation) :
          dashboardNavigation[i].isActive =
              IF dashboardNavigation[i].id = "dashboard"
              THEN path = dashboardNavigation[i].path
              ELSE HasTextualPrefix(path, dashboardNavigation[i].path)

\* C15 witness: on /coursesX the courses item is active
C15_Witness ==
    /\ path = Path_courses \o <<"X">>
    /\ "courses" \in ActiveIds(navigationMenus)

\* C16: on every path at most one item of each navbar's list is active.
C16_AtMostOneActive ==
    /\ Cardinality(ActiveIds(navigationMenus)) <= 1
    /\ Cardinality(ActiveIds(dashboardNavigation)) <= 1

\* C16 witness: on /dashboard/courses the course item alone is active in
\* the dashboard list, and nothing is in the public list
C16_Witness ==
    /\ path = Path_dashboardCourse \o <<"s">>
    /\ ActiveIds(dashboardNavigation) = {"course"}
    /\ ActiveIds(navigationMenus) = {}

\* --------------------------------------------------- claims: logout
Runs == 1..Len(logouts)

Did(i, what) == \E k \in 1..Len(logouts[i].log) : logouts[i].log[k] = what

\* in run i, a was done and b was not done before it
Before(i, a, b) ==
    \E k \in 1..Len(logouts[i].log) :
        /\ logouts[i].log[k] = a
        /\ \A j \in 1..k : logouts[i].log[j] # b

IsPrefixOf(s, full) == Len(s) <= Len(full) /\ s = SubSeq(full, 1, Len(s))

\* C12 as stated: in both navbars logout invokes sign-out, then closes the
\* mobile menu, then navigates to "/".
C12_SignOutCloseNavigate ==
    \A i \in Runs :
        IsPrefixOf(logouts[i].log, <<"signOut", "closeMenu", "navigateTo">>)

\* C12 amended: Navbar invokes sign-out, closes the mobile menu, then
\* navigates to "/"; DashboardNavbar closes the mobile menu, invokes
\* sign-out, then navigates to "/"; in both, the navigation is never
\* initiated before sign-out was invoked and the menu set to closed.
C12_LogoutOrder ==
    \A i \in Runs :
        /\ logouts[i].component = "Navbar" =>
              logouts[i].log = <<"signOut", "closeMenu", "navigateTo">>
        /\ logouts[i].component = "DashboardNavbar" =>
              IsPrefixOf(logouts[i].log, <<"closeMenu", "signOut", "navigateTo">>)
        /\ Did(i, "navigateTo") =>
              /\ Before(i, "signOut", "navigateTo")
              /\ Before(i, "closeMenu", "navigateTo")

\* C12 witness: a logout of each navbar has got as far as navigating
C12_Witness ==
    \E i, j \in Runs :
        /\ logouts[i].component = "Navbar"
        /\ logouts[j].component = "DashboardNavbar"
        /\ Did(i, "navigateTo")
        /\ Did(j, "navigateTo")

\* C13 as stated: in both navbars, once logout is triggered the navigation
\* to "/" is eventually initiated, whether or not sign-out completes.
C13_NavigationAlwaysFollows ==
    \A i \in 1..MaxLogouts :
        (Len(logouts) >= i) ~> (Len(logouts) >= i /\ Did(i, "navigateTo"))

\* C13 amended: Navbar initiates the navigation in the step that triggers
\* logout, whatever becomes of sign-out; DashboardNavbar initiates it only
\* once sign-out has completed successfully, and then it eventually does.
C13_FireAndForgetInNavbarOnly ==
    /\ [](\A i \in Runs :
            /\ logouts[i].component = "Navbar" => Did(i, "navigateTo")
            /\ (logouts[i].component = "DashboardNavbar" /\ Did(i, "navigateTo")) =>
                  signOuts[logouts[i].promise] = "resolved")
    /\ \A i \in 1..MaxLogouts :
          (/\ Len(logouts) >= i
           /\ logouts[i].component = "DashboardNavbar"
           /\ signOuts[logouts[i].promise] = "resolved")
            ~> (Len(logouts) >= i /\ Did(i, "navigateTo"))

\* C13 witness: a Navbar logout navigated although its sign-out failed,
\* and a DashboardNavbar logout whose sign-out failed ended without
\* navigating
C13_Witness ==
    \E i, j \in Runs :
        /\ logouts[i].component = "Navbar"
        /\ signOuts[logouts[i].promise] = "rejected"
        /\ Did(i, "navigateTo")
        /\ logouts[j].component = "DashboardNavbar"
        /\ logouts[j].pc = "failed"
        /\ ~Did(j, "navigateTo")

\* C14: every trigger of logout invokes sign-out once more, also while an
\* earlier logout has not finished: as many sign-out calls as triggers,
\* each run with a call of its own.
C14_SignOutPerTrigger ==
    /\ Len(signOuts) = Len(logouts)
    /\ \A i \in Runs : logouts[i].promise = i /\ Did(i, "signOut")

\* C14 witness: logout was triggered twice in DashboardNavbar, the second
\* time while the first was still awaiting its sign-out, and sign-out was
\* invoked twice
C14_Witness ==
    /\ Len(logouts) >= 2
    /\ \A i \in 1..2 :
          /\ logouts[i].component = "DashboardNavbar"
          /\ logouts[i].pc = "awaitSignOut"
    /\ Len(signOuts) >= 2

\* ------------------------------------- claims: the dashboard mobile menu
DashboardRefs == [mobileMenuOpen : BOOLEAN]

====
